---- MODULE Spec2Model ----
(***************************************************************************)
(* The session/token lifecycle of the ReWear storefront client:            *)
(*   - services/axiosClient: the request interceptor (attach bearer token) *)
(*     and the response interceptor (refresh-and-retry with a queue of the *)
(*     requests that failed while a refresh was in flight);                *)
(*   - contexts/AuthContext: AuthProvider (login, register, logout,        *)
(*     fetchUser on mount, refreshAuthState on storage events).            *)
(*   - contexts/FavoritesContext: FavoritesProvider (optimistic            *)
(*     addFavorite / removeFavorite, refreshFavorites) against a server    *)
(*     that holds the favorite list.                                       *)
(* One browser tab is modelled in full; other tabs appear as writers of    *)
(* the shared localStorage, whose writes raise storage events in this tab. *)
(* JavaScript runs handlers to completion: one action is one task together *)
(* with the promise continuations (microtasks) it releases.                *)
(***************************************************************************)
EXTENDS Integers, Sequences, FiniteSets, TLC

\* ------------------------------------------------------------- bounds
NumReqs   == 2      \* requests issued through axiosClient in one run
NumTokens == 2      \* distinct token values the server may hand out
NumUsers  == 1      \* distinct user profiles
MaxOtherWrites == 1 \* writes of other tabs to the shared storage in one run
NumItems  == 2      \* distinct item ids
NumCalls  == 3      \* calls into the FavoritesProvider in one run
NumQueueReqs == 3   \* requests in one run of the interceptor with its queue
NumCartItems == 3   \* distinct items put into the cart
MaxQuantity == 3    \* largest quantity of a cart entry

\* ---------------------------------------------------------- constants
UNAUTHORIZED == 401

Reqs    == 1..NumQueueReqs
SessionReqs == 1..NumReqs   \* the requests of a run with the AuthProvider
Tokens  == 1..NumTokens
Users   == 1..NumUsers
Items   == 1..NumItems
Calls   == 1..NumCalls
CartItemIds == 1..NumCartItems
NULL    == 0        \* null / undefined / absent key (falsy)

\* The client only tests a refresh token for presence and hands it back to the
\* server, so one value stands for every refresh token.
RefreshTokens == {1}

Kinds   == {"api", "login", "register", "logout", "me"}
\* HTTP status of an error response: 401, or any other failure (500 stands for
\* every status but 401 and for a network failure, which take the same path)
Statuses == {UNAUTHORIZED, 500}
AuthKeys == {"access_token", "refresh_token", "user"}

VARIABLES
    ls,             \* localStorage: access_token, refresh_token, user
    isRefreshing,   \* module flag of axiosClient
    failedQueue,    \* module queue of axiosClient: requests awaiting the refresh
    kind,           \* per request: which api.* call it is ("none": not issued)
    rstate,         \* per request: idle | sent | queued | refreshing | done
    retry,          \* per request: config._retry
    auth,           \* per request: token of its Authorization header (NULL: none)
    replays,        \* per request: how often the interceptor re-sent it
    result,         \* per request: what its caller's promise settled with
    refreshCalls,   \* requests whose handler awaits POST /api/auth/refresh-token
    user,           \* AuthProvider state
    accessToken,    \* AuthProvider state
    isLoading,      \* AuthProvider state
    storageEvents,  \* undelivered storage events of this tab whose key is
                    \* access_token, refresh_token or user
    otherWrites,    \* how many times other tabs have written the storage
    favoriteItems,  \* FavoritesProvider state: the entries of the fetched list
    favoriteIds,    \* FavoritesProvider state: Set<number>
    favoritesLoading, \* FavoritesProvider state: isLoading
    calls,          \* per call of addFavorite / removeFavorite /
                    \* refreshFavorites: where it stands and what it awaits
    serverFavorites,\* the server: the user's favorite list, in its order
    serverFormat,   \* the server: the shape of its GET /api/favorites body
    settledOrder,   \* the entries the last processQueue settled, in its order
    cartItems,      \* CartProvider state: items
    cartStorage     \* localStorage: the list written under rewear_cart

favVars == <<favoriteItems, favoriteIds, favoritesLoading, calls,
             serverFavorites, serverFormat>>

vars == <<ls, isRefreshing, failedQueue, kind, rstate, retry, auth, replays,
          result, refreshCalls, user, accessToken, isLoading, storageEvents,
          otherWrites, favVars, settledOrder, cartItems, cartStorage>>

reqVars == <<kind, rstate, retry, auth, replays, result>>
authVars == <<user, accessToken, isLoading>>
cartVars == <<cartItems, cartStorage>>

\* ------------------------------------------------------------- values
NoStore == [access_token |-> NULL, refresh_token |-> NULL, user |-> NULL]

Pending == [state |-> "pending", status |-> NULL, config |-> NULL, message |-> ""]
Fulfilled == [state |-> "fulfilled", status |-> 200, config |-> NULL, message |-> ""]
\* the AxiosError of request r answered with status s (error.config = r)
ResponseError(r, s) ==
    [state |-> "rejected", status |-> s, config |-> r, message |-> ""]
\* what the refresh POST (plain axios, config 0) threw inside the try block
RefreshFailures == {"network", "rejected", "no_access_token"}
RefreshError(why) ==
    CASE why = "network"  -> [state |-> "rejected", status |-> NULL,
                              config |-> NULL, message |-> "Network Error"]
      [] why = "rejected" -> [state |-> "rejected", status |-> UNAUTHORIZED,
                              config |-> NULL, message |-> "refresh-token"]
      [] OTHER            -> [state |-> "rejected", status |-> NULL, config |-> NULL,
                              message |-> "No access token in refresh response"]

\* ------------------------------------------------- services/axiosClient
\* faulty variant: the cached user is left behind
clearAuthTokensKeepUser(store) ==
    [store EXCEPT !.access_token = NULL, !.refresh_token = NULL]

\* clearAuthTokens(): the three removeItem calls
clearAuthTokens(store) ==
    [store EXCEPT !.access_token = NULL, !.refresh_token = NULL, !.user = NULL]

\* faulty variant: the stored token is not attached
attachAuthNever(store, header) == header

\* request interceptor: the Authorization header a request leaves with, given
\* the header it already has (NULL for a fresh request)
attachAuth(store, header) ==
    IF store.access_token # NULL THEN store.access_token ELSE header

\* The request configurations the interceptor is given: the headers it looks
\* at, whether the body is a FormData, and what else a config carries.
\* ("absent" is a header that is not set)
ContentTypes == {"absent", "application/json", "multipart/form-data"}
Configs ==
    [Authorization : Tokens \cup {NULL}, ContentType : ContentTypes,
     formData : BOOLEAN, url : {"/api/items", "/api/favorites"},
     retry : BOOLEAN]

\* lines 120-139: the request interceptor
requestInterceptor(config, store) ==
    [config EXCEPT !.Authorization = attachAuth(store, @),
                   !.ContentType = IF config.formData
                                   THEN "absent" ELSE "application/json"]

\* faulty variant: the _retry mark is not consulted
ShouldRefreshIgnoringRetry(r, s) == s = UNAUTHORIZED

\* line 146: does the response interceptor take the refresh path?
ShouldRefresh(r, s) == s = UNAUTHORIZED /\ ~retry[r]

\* faulty variant: the in-progress flag is not consulted
RefreshPendingNever == FALSE

\* line 147: is a refresh already under way?
RefreshPending == isRefreshing

\* faulty variant: the queue is walked from its end
forEachReversed(queue) == [k \in DOMAIN queue |-> queue[Len(queue) + 1 - k]]

\* line 107: failedQueue.forEach visits the entries from the first pushed on
forEach(queue) == queue

\* faulty variant: a failed refresh leaves the entries unsettled
processQueueResolveOnly(error, token) ==
    IF error = Pending /\ token # NULL THEN "resolve" ELSE "dropped"

\* processQueue(error, token): what happens to each queued entry
\* (error = Pending stands for the null error argument)
processQueue(error, token) ==
    IF error # Pending THEN "reject"
    ELSE IF token # NULL THEN "resolve"
    ELSE "dropped"

\* faulty variant: the original 401 is handed back instead
RefreshRejectionOriginal(original, refreshError) == original

\* lines 192-195: what the caller of the refreshing request is rejected with
RefreshRejection(original, refreshError) == refreshError

\* faulty variant: the new access token is not persisted
StoreRefreshedNoAccess(store, newAccessToken, newRefreshToken) ==
    [store EXCEPT !.refresh_token = IF newRefreshToken # NULL
                                    THEN newRefreshToken ELSE @]

\* lines 184-187: storage after a successful refresh
StoreRefreshed(store, newAccessToken, newRefreshToken) ==
    [store EXCEPT !.access_token = newAccessToken,
                  !.refresh_token = IF newRefreshToken # NULL
                                    THEN newRefreshToken ELSE @]

\* ------------------------------------------------- contexts/AuthContext
\* The part of the state the AuthProvider callbacks read and write.
Session == [ls |-> ls, user |-> user, accessToken |-> accessToken,
            isLoading |-> isLoading]

isAuthenticated == user # NULL /\ accessToken # NULL

NoData == [access_token |-> NULL, refresh_token |-> NULL, user |-> NULL]
\* responseData of a successful response, by the call it answers
DataFor(k) ==
    IF k \in {"login", "register"}
    THEN [access_token : Tokens \cup {NULL}, refresh_token : RefreshTokens \cup {NULL},
          user : Users \cup {NULL}]
    ELSE IF k = "me"
    THEN [access_token : {NULL}, refresh_token : {NULL}, user : Users \cup {NULL}]
    ELSE {NoData}

\* faulty variant: only the access token is required
InvalidLoginResponseTokenOnly(data) == data.access_token = NULL

\* line 197: does login throw new Error('Invalid login response')?
InvalidLoginResponse(data) == data.access_token = NULL \/ data.user = NULL

\* login, after api.auth.login resolved with data
login(s, data) ==
    IF InvalidLoginResponse(data)
    THEN s      \* the throw leaves storage and state as they were
    ELSE [s EXCEPT !.ls = [access_token |-> data.access_token,
                           refresh_token |-> IF data.refresh_token # NULL
                                             THEN data.refresh_token
                                             ELSE s.ls.refresh_token,
                           user |-> data.user],
                   !.accessToken = data.access_token,
                   !.user = data.user]

\* register, after api.auth.register resolved with data
register(s, data) ==
    IF data.access_token = NULL
    THEN s
    ELSE [s EXCEPT !.ls = [access_token |-> data.access_token,
                           refresh_token |-> IF data.refresh_token # NULL
                                             THEN data.refresh_token
                                             ELSE s.ls.refresh_token,
                           user |-> IF data.user # NULL
                                    THEN data.user ELSE s.ls.user],
                   !.user = IF data.user # NULL THEN data.user ELSE @,
                   !.accessToken = data.access_token]

\* faulty variant: the session is destroyed only when the server call succeeded
logoutOnSuccessOnly(s, ok) ==
    IF ok
    THEN [s EXCEPT !.ls = clearAuthTokens(s.ls), !.accessToken = NULL, !.user = NULL]
    ELSE s

\* logout: the finally block, run whether api.auth.logout resolved or threw
logout(s, ok) ==
    [s EXCEPT !.ls = clearAuthTokens(s.ls), !.accessToken = NULL, !.user = NULL]

\* fetchUser, after api.auth.me resolved with data (try + finally)
fetchUserThen(s, data) ==
    IF data.user # NULL
    THEN [s EXCEPT !.user = data.user, !.ls.user = data.user, !.isLoading = FALSE]
    ELSE [s EXCEPT !.isLoading = FALSE]

\* faulty variant: the stored session is left behind
fetchUserCatchKeepStore(s) ==
    [s EXCEPT !.accessToken = NULL, !.user = NULL, !.isLoading = FALSE]

\* fetchUser, after api.auth.me threw (catch + finally)
fetchUserCatch(s) ==
    [s EXCEPT !.ls = clearAuthTokens(s.ls), !.accessToken = NULL, !.user = NULL,
              !.isLoading = FALSE]

\* faulty variant: the user is not re-read
refreshAuthStateTokenOnly(s) == [s EXCEPT !.accessToken = s.ls.access_token]

\* refreshAuthState(): resynchronise the in-memory state from storage
refreshAuthState(s) ==
    [s EXCEPT !.accessToken = s.ls.access_token, !.user = s.ls.user]

\* The continuation of the caller awaiting a request of kind k, when the
\* request's promise is fulfilled with data / rejected.
OnFulfilled(s, k, data) ==
    CASE k = "login"    -> login(s, data)
      [] k = "register" -> register(s, data)
      [] k = "logout"   -> logout(s, TRUE)
      [] k = "me"       -> fetchUserThen(s, data)
      [] OTHER          -> s

OnRejected(s, k) ==
    CASE k = "logout" -> logout(s, FALSE)
      [] k = "me"     -> fetchUserCatch(s)
      [] OTHER        -> s

\* the continuations of the callers of the requests qs (a sequence), in order
RECURSIVE OnRejectedAll(_, _)
OnRejectedAll(s, qs) ==
    IF qs = <<>> THEN s
    ELSE OnRejectedAll(OnRejected(s, kind[Head(qs)]), Tail(qs))

SetSession(s) ==
    /\ ls' = s.ls
    /\ user' = s.user
    /\ accessToken' = s.accessToken
    /\ isLoading' = s.isLoading

Range(q) == {q[i] : i \in DOMAIN q}

\* --------------------------------------------- contexts/FavoritesContext
\* JavaScript values of a response body, as far as extractItemsArray looks:
\* arrays, objects (one interesting field each) and undefined
Undefined == [tag |-> "undefined"]
Arr(elems) == [tag |-> "array", elems |-> elems]
Obj(field, value) == [tag |-> "object", field |-> field, value |-> value]
\* v?.f
Get(v, f) ==
    IF v.tag = "object" THEN (IF v.field = f THEN v.value ELSE Undefined)
    ELSE Undefined
\* a ?? b
Coalesce(a, b) == IF a.tag = "undefined" THEN b ELSE a

\* The two list formats the sources describe: { data: [ ...items ] } with Item
\* entries { id, ... } (FavoritesContext.tsx line 43) and
\* { data: { favorites: [ { item_id, item?, favorited_at } ] } } (api.ts line 104).
Formats == {"items", "favorites"}
ItemEntry(x) == [id |-> x, item_id |-> NULL]
FavoriteEntry(x) == [id |-> NULL, item_id |-> x]
Body(format, list) ==
    IF format = "items"
    THEN Obj("data", Arr([k \in DOMAIN list |-> ItemEntry(list[k])]))
    ELSE Obj("data", Obj("favorites", Arr([k \in DOMAIN list |-> FavoriteEntry(list[k])])))

extractItemsArray(payload) ==
    LET arr == Coalesce(Get(Get(payload, "data"), "data"),
                        Coalesce(Get(payload, "data"), payload))
    IN  IF arr.tag = "array" THEN arr.elems ELSE <<>>

syncIdsFromItems(items) ==
    {items[k].id : k \in {j \in DOMAIN items : items[j].id # NULL}}

\* An error of a favorites request as its caller sees it. The message is the
\* lower-cased text cut into fragments, so that String.includes of one of the
\* words the code looks for is membership of that fragment.
FavError(status, message) == [status |-> status, message |-> message]
NoError == FavError(NULL, <<"(none)">>)
AlreadyInFavorites == FavError(400, <<"item ", "already", " in ", "favorite", "s">>)
NotInFavorites == FavError(404, <<"item ", "not", " in ", "favorite", "s">>)
NotFavorited == FavError(400, <<"item is ", "not", " ", "favorite", "d">>)
CannotFavoriteOwn == FavError(400, <<"you can", "not", " ", "favorite", " your own item">>)
ItemNotFound == FavError(404, <<"item ", "not", " found">>)
BadRequest == FavError(400, <<"bad request">>)
ServerError == FavError(500, <<"server error">>)

includes(msg, word) == \E k \in DOMAIN msg : msg[k] = word

isAlreadyFavoritedError(err) ==
    /\ err.status = 400
    /\ (includes(err.message, "already") \/ includes(err.message, "favorite"))

\* faulty variant: only a 404 counts
isNotFavoritedError404Only(err) ==
    /\ err.status = 404
    /\ (includes(err.message, "not") \/ includes(err.message, "favorite"))

isNotFavoritedError(err) ==
    /\ err.status \in {404, 400}
    /\ (includes(err.message, "not") \/ includes(err.message, "favorite"))

\* faulty variant: no failure of a mutation is re-thrown
SwallowsAll(fn, err) == TRUE

\* lines 98 and 131: is the error of the mutation request swallowed?
Swallows(fn, err) ==
    IF fn = "addFavorite" THEN isAlreadyFavoritedError(err)
    ELSE isNotFavoritedError(err)

\* faulty variant: a failed add leaves its optimistic mark
RollbackNothing(fn, ids, x) == ids

\* lines 99-104: the rollback of a failed addFavorite (removeFavorite has none)
Rollback(fn, ids, x) == IF fn = "addFavorite" THEN ids \ {x} ELSE ids

isFavorite(x) == x \in favoriteIds

\* The state of the FavoritesProvider
Favorites == [favoriteItems |-> favoriteItems, favoriteIds |-> favoriteIds,
              isLoading |-> favoritesLoading]

\* refreshFavorites with isAuthenticated false: lines 62-66
refreshFavoritesSignedOut(f) ==
    [f EXCEPT !.favoriteItems = <<>>, !.favoriteIds = {}]

\* refreshFavorites, getAll resolved with the body payload: lines 71-73, 78
refreshFavoritesThen(f, payload) ==
    LET items == extractItemsArray(payload)
    IN  [favoriteItems |-> items, favoriteIds |-> syncIdsFromItems(items),
         isLoading |-> FALSE]

\* refreshFavorites' catch branch, had it only emptied the list
refreshFavoritesCatchKeepIds(f) ==
    [f EXCEPT !.favoriteItems = <<>>, !.isLoading = FALSE]

\* refreshFavorites, getAll threw: lines 74-78
refreshFavoritesCatch(f) ==
    [favoriteItems |-> <<>>, favoriteIds |-> {}, isLoading |-> FALSE]

\* faulty variant: the optimistic insert replaces the set
addOptimisticAlone(f, x) == [f EXCEPT !.favoriteIds = {x}]

\* the optimistic updates of addFavorite (line 92) and removeFavorite
\* (lines 118-125)
addOptimistic(f, x) == [f EXCEPT !.favoriteIds = @ \cup {x}]

removeOptimistic(f, x) ==
    [f EXCEPT !.favoriteIds = @ \ {x},
              !.favoriteItems = SelectSeq(@, LAMBDA it : it.id # x)]

SetFavorites(f) ==
    /\ favoriteItems' = f.favoriteItems
    /\ favoriteIds' = f.favoriteIds
    /\ favoritesLoading' = f.isLoading

\* A response on its way back to the tab
NoResponse == [ok |-> FALSE, error |-> NoError, body |-> Undefined]
Succeeded(body) == [ok |-> TRUE, error |-> NoError, body |-> body]
Failed(err) == [ok |-> FALSE, error |-> err, body |-> Undefined]

\* One call into the provider: the function and item, the phase (idle,
\* mutating: mutation request sent; mutated: answered, answer on its way;
\* fetching / fetched: the same for the list request; done), the requests it
\* issued, how many were settled, the Authorization header of its request
\* under way to the server, the mutation's error, whether it is to be
\* re-thrown, and how the call ended.
IdleCall ==
    [fn |-> "none", id |-> NULL, phase |-> "idle", sent |-> <<>>, settled |-> 0,
     auth |-> NULL, response |-> NoResponse, error |-> NoError,
     rethrow |-> FALSE, outcome |-> "pending"]

\* faulty variant: the guard lets a signed-out visitor through
MayMutateAlways == TRUE

\* lines 87 and 113: if (!isAuthenticated) return
MayMutate == isAuthenticated

\* the server's list without / with item x
Without(list, x) == SelectSeq(list, LAMBDA y : y # x)
With(list, x) == IF x \in Range(list) THEN list ELSE Append(list, x)

\* the lists a server may hold: every order of every set of items
ServerLists ==
    {l \in UNION {[1..n -> Items] : n \in 0..NumItems} :
        \A j, k \in DOMAIN l : j # k => l[j] # l[k]}

\* ------------------------------------------------------------- initial
\* The specifications of the session and of the favorites leave the
\* CartProvider aside: an empty cart, written once by the mount effect.
CartIdle ==
    /\ cartItems = <<>>
    /\ cartStorage = <<>>

\* The specifications of the session leave the FavoritesProvider aside.
FavoritesIdle ==
    /\ favoriteItems = <<>>
    /\ favoriteIds = {}
    /\ favoritesLoading = FALSE
    /\ calls = [i \in Calls |-> IdleCall]
    /\ serverFavorites = <<>>
    /\ serverFormat = "items"

\* A page load. Storage holds either nothing or a session a login left.
InitStores ==
    {NoStore} \cup [access_token : Tokens, refresh_token : RefreshTokens \cup {NULL},
                    user : Users]

Init ==
    /\ ls \in InitStores
    /\ isRefreshing = FALSE
    /\ failedQueue = <<>>
    /\ settledOrder = <<>>
    /\ kind = [r \in Reqs |-> "none"]
    /\ rstate = [r \in Reqs |-> "idle"]
    /\ retry = [r \in Reqs |-> FALSE]
    /\ auth = [r \in Reqs |-> NULL]
    /\ replays = [r \in Reqs |-> 0]
    /\ result = [r \in Reqs |-> Pending]
    /\ refreshCalls = {}
    /\ user = ls.user                   \* useState initialisers
    /\ accessToken = ls.access_token
    /\ isLoading = TRUE
    /\ storageEvents = 0
    /\ otherWrites = 0
    /\ CartIdle
    /\ FavoritesIdle

\* fetchUser has been started by the mount effect
Mounted == ~isLoading \/ \E r \in Reqs : kind[r] = "me"

\* requests are numbered in the order they are issued
NextReq(r) == rstate[r] = "idle" /\ \A q \in Reqs : q < r => rstate[q] # "idle"

\* axiosClient(config): the request leaves through the request interceptor
Send(r, k) ==
    /\ kind' = [kind EXCEPT ![r] = k]
    /\ rstate' = [rstate EXCEPT ![r] = "sent"]
    /\ auth' = [auth EXCEPT ![r] = attachAuth(ls, auth[r])]

\* ------------------------------------------------------------- actions
\* AuthProvider's mount effect: fetchUser()
FetchUser ==
    /\ ~Mounted
    /\ IF ls.access_token = NULL
       THEN /\ isLoading' = FALSE
            /\ UNCHANGED <<kind, rstate, auth>>
       ELSE /\ \E r \in Reqs : NextReq(r) /\ Send(r, "me")
            /\ UNCHANGED isLoading
    /\ UNCHANGED <<favVars, cartVars>>
    /\ UNCHANGED <<ls, user, accessToken, retry, replays, result, isRefreshing,
                   failedQueue, refreshCalls, storageEvents, otherWrites,
                   settledOrder>>

\* a caller starts api.auth.login / register / logout or any other api.* call
Call(r, k) ==
    /\ Mounted
    /\ NextReq(r)
    /\ k = "logout" => isAuthenticated      \* Header offers logout to a signed-in user
    /\ Send(r, k)
    /\ UNCHANGED <<favVars, cartVars>>
    /\ UNCHANGED <<ls, authVars, retry, replays, result, isRefreshing,
                   failedQueue, refreshCalls, storageEvents, otherWrites,
                   settledOrder>>

\* response interceptor, (response) => response; then the caller continues
RespondOK(r, data) ==
    /\ rstate[r] = "sent"
    /\ data \in DataFor(kind[r])
    /\ rstate' = [rstate EXCEPT ![r] = "done"]
    /\ result' = [result EXCEPT ![r] = Fulfilled]
    /\ SetSession(OnFulfilled(Session, kind[r], data))
    /\ UNCHANGED <<favVars, cartVars>>
    /\ UNCHANGED <<kind, retry, auth, replays, isRefreshing, failedQueue,
                   refreshCalls, storageEvents, otherWrites, settledOrder>>

\* response interceptor, line 201: return Promise.reject(error)
Reject(r, s) ==
    /\ rstate[r] = "sent"
    /\ ~ShouldRefresh(r, s)
    /\ rstate' = [rstate EXCEPT ![r] = "done"]
    /\ result' = [result EXCEPT ![r] = ResponseError(r, s)]
    /\ SetSession(OnRejected(Session, kind[r]))
    /\ UNCHANGED <<favVars, cartVars>>
    /\ UNCHANGED <<kind, retry, auth, replays, isRefreshing, failedQueue,
                   refreshCalls, storageEvents, otherWrites, settledOrder>>

\* response interceptor, lines 147-156: queue the request behind the refresh
Enqueue(r, s) ==
    /\ rstate[r] = "sent"
    /\ ShouldRefresh(r, s)
    /\ RefreshPending
    /\ failedQueue' = Append(failedQueue, r)
    /\ rstate' = [rstate EXCEPT ![r] = "queued"]
    /\ UNCHANGED <<favVars, cartVars>>
    /\ UNCHANGED <<ls, authVars, kind, retry, auth, replays, result,
                   isRefreshing, refreshCalls, storageEvents, otherWrites,
                   settledOrder>>

\* faulty variant: the in-progress flag is left set on the early return
NoRefreshTokenStuck(r, s) ==
    /\ rstate[r] = "sent"
    /\ ShouldRefresh(r, s)
    /\ ~RefreshPending
    /\ ls.refresh_token = NULL
    /\ retry' = [retry EXCEPT ![r] = TRUE]
    /\ isRefreshing' = TRUE
    /\ rstate' = [rstate EXCEPT ![r] = "done"]
    /\ result' = [result EXCEPT ![r] = ResponseError(r, s)]
    /\ SetSession(OnRejected([Session EXCEPT !.ls = clearAuthTokens(ls)], kind[r]))
    /\ UNCHANGED <<favVars, cartVars>>
    /\ UNCHANGED <<kind, auth, replays, failedQueue, refreshCalls, storageEvents,
                   otherWrites, settledOrder>>

\* response interceptor, lines 158-167: no refresh token in storage
NoRefreshToken(r, s) ==
    /\ rstate[r] = "sent"
    /\ ShouldRefresh(r, s)
    /\ ~RefreshPending
    /\ ls.refresh_token = NULL
    /\ retry' = [retry EXCEPT ![r] = TRUE]
    /\ isRefreshing' = FALSE
    /\ rstate' = [rstate EXCEPT ![r] = "done"]
    /\ result' = [result EXCEPT ![r] = ResponseError(r, s)]
    /\ SetSession(OnRejected([Session EXCEPT !.ls = clearAuthTokens(ls)], kind[r]))
    /\ UNCHANGED <<favVars, cartVars>>
    /\ UNCHANGED <<kind, auth, replays, failedQueue, refreshCalls, storageEvents,
                   otherWrites, settledOrder>>

\* response interceptor, lines 158-174: start the refresh call and await it
StartRefresh(r, s) ==
    /\ rstate[r] = "sent"
    /\ ShouldRefresh(r, s)
    /\ ~RefreshPending
    /\ ls.refresh_token # NULL
    /\ retry' = [retry EXCEPT ![r] = TRUE]
    /\ isRefreshing' = TRUE
    /\ rstate' = [rstate EXCEPT ![r] = "refreshing"]
    /\ refreshCalls' = refreshCalls \cup {r}
    /\ UNCHANGED <<favVars, cartVars>>
    /\ UNCHANGED <<ls, authVars, kind, auth, replays, result, failedQueue,
                   storageEvents, otherWrites, settledOrder>>

\* request r fails with status s: the error handler of the response interceptor
RespondError(r, s) ==
    \/ Reject(r, s)
    \/ Enqueue(r, s)
    \/ NoRefreshToken(r, s)
    \/ StartRefresh(r, s)

\* a queue entry after processQueue: replayed, rejected, or never settled
QueuedState(how) ==
    CASE how = "resolve" -> "sent"
      [] how = "reject"  -> "done"
      [] OTHER           -> "dropped"

\* lines 176-191 and 196-198: the refresh call of r's handler returned
\* newAccessToken (and newRefreshToken, NULL when not rotated)
RefreshSucceeds(r, newAccessToken, newRefreshToken) ==
    /\ r \in refreshCalls
    /\ LET store == StoreRefreshed(ls, newAccessToken, newRefreshToken)
           how   == processQueue(Pending, newAccessToken)
           woken == IF how = "resolve" THEN Range(failedQueue) ELSE {}
       IN  /\ ls' = store
           /\ auth' = [q \in Reqs |->
                         IF q = r \/ q \in woken
                         THEN attachAuth(store, newAccessToken) ELSE auth[q]]
           /\ rstate' = [q \in Reqs |->
                         IF q = r THEN "sent"
                         ELSE IF q \in Range(failedQueue) THEN QueuedState(how)
                         ELSE rstate[q]]
           /\ replays' = [q \in Reqs |->
                         IF q = r \/ q \in woken THEN replays[q] + 1 ELSE replays[q]]
    /\ failedQueue' = <<>>
    /\ settledOrder' = forEach(failedQueue)
    /\ isRefreshing' = FALSE
    /\ refreshCalls' = refreshCalls \ {r}
    /\ UNCHANGED <<favVars, cartVars>>
    /\ UNCHANGED <<authVars, kind, retry, result, storageEvents, otherWrites>>

\* lines 192-198: the refresh call of r's handler threw (or line 181 did)
RefreshFails(r, why) ==
    /\ r \in refreshCalls
    /\ LET refreshError == RefreshError(why)
           how      == processQueue(refreshError, NULL)
           rejected == IF how = "reject" THEN failedQueue ELSE <<>>
           cleared  == [Session EXCEPT !.ls = clearAuthTokens(ls)]
       IN  /\ SetSession(OnRejected(OnRejectedAll(cleared, rejected), kind[r]))
           /\ result' = [q \in Reqs |->
                         IF q = r
                         THEN RefreshRejection(ResponseError(r, UNAUTHORIZED),
                                               refreshError)
                         ELSE IF q \in Range(rejected) THEN refreshError
                         ELSE result[q]]
           /\ rstate' = [q \in Reqs |->
                         IF q = r THEN "done"
                         ELSE IF q \in Range(failedQueue) THEN QueuedState(how)
                         ELSE rstate[q]]
    /\ failedQueue' = <<>>
    /\ settledOrder' = forEach(failedQueue)
    /\ isRefreshing' = FALSE
    /\ refreshCalls' = refreshCalls \ {r}
    /\ UNCHANGED <<favVars, cartVars>>
    /\ UNCHANGED <<kind, retry, auth, replays, storageEvents, otherWrites>>

\* the storage events a write of another tab raises here: one per changed key
Changed(old, new) == {k \in AuthKeys : old[k] # new[k]}

OtherTabWrites(new) ==
    /\ Mounted
    /\ Changed(ls, new) # {}
    /\ otherWrites < MaxOtherWrites
    /\ otherWrites' = otherWrites + 1
    /\ ls' = new
    /\ storageEvents' = storageEvents + Cardinality(Changed(ls, new))
    /\ UNCHANGED <<favVars, cartVars>>
    /\ UNCHANGED <<authVars, reqVars, isRefreshing, failedQueue, refreshCalls,
                   settledOrder>>

\* another tab of the same origin logs in, logs out, or refreshes its token
OtherTabLogin(a, rt, u) ==
    OtherTabWrites(login(Session, [access_token |-> a, refresh_token |-> rt,
                                   user |-> u]).ls)

OtherTabLogout == OtherTabWrites(clearAuthTokens(ls))

OtherTabRefresh(a, rt) ==
    /\ ls.refresh_token # NULL
    /\ OtherTabWrites(StoreRefreshed(ls, a, rt))

\* the 'storage' listener of AuthProvider, for an event it does not ignore
handleStorageChange ==
    /\ storageEvents > 0
    /\ storageEvents' = storageEvents - 1
    /\ SetSession(refreshAuthState(Session))
    /\ UNCHANGED <<favVars, cartVars>>
    /\ UNCHANGED <<reqVars, isRefreshing, failedQueue, refreshCalls, otherWrites,
                   settledOrder>>

\* ------------------------------------------------------ specifications
\* One tab: the interceptor and the AuthProvider, from a page load.
Next ==
    \/ FetchUser
    \/ \E r \in SessionReqs, k \in Kinds \ {"me"} : Call(r, k)
    \/ \E r \in Reqs, data \in DataFor("login") : RespondOK(r, data)
    \/ \E r \in Reqs, s \in Statuses : RespondError(r, s)
    \/ \E r \in Reqs, a \in Tokens, rt \in RefreshTokens \cup {NULL} :
          RefreshSucceeds(r, a, rt)
    \/ \E r \in Reqs, why \in RefreshFailures : RefreshFails(r, why)

Spec == Init /\ [][Next]_vars

\* The same tab beside other tabs of the origin, which write the shared storage.
NextTabs ==
    \/ Next
    \/ \E a \in Tokens, rt \in RefreshTokens \cup {NULL}, u \in Users :
          OtherTabLogin(a, rt, u)
    \/ OtherTabLogout
    \/ \E a \in Tokens, rt \in RefreshTokens \cup {NULL} : OtherTabRefresh(a, rt)
    \/ handleStorageChange

SpecTabs == Init /\ [][NextTabs]_vars

\* The browser's event loop delivers every storage event it has queued.
SpecTabsFair == SpecTabs /\ WF_vars(handleStorageChange)

\* The interceptor alone: the AuthProvider has finished loading and the
\* callers are api.* calls whose continuation touches no session state.
InitInterceptor ==
    /\ ls \in InitStores
    /\ isRefreshing = FALSE
    /\ failedQueue = <<>>
    /\ settledOrder = <<>>
    /\ kind = [r \in Reqs |-> "none"]
    /\ rstate = [r \in Reqs |-> "idle"]
    /\ retry = [r \in Reqs |-> FALSE]
    /\ auth = [r \in Reqs |-> NULL]
    /\ replays = [r \in Reqs |-> 0]
    /\ result = [r \in Reqs |-> Pending]
    /\ refreshCalls = {}
    /\ user = ls.user
    /\ accessToken = ls.access_token
    /\ isLoading = FALSE
    /\ storageEvents = 0
    /\ otherWrites = 0
    /\ CartIdle
    /\ FavoritesIdle

NextInterceptor ==
    \/ \E r \in SessionReqs : Call(r, "api")
    \/ \E r \in Reqs : RespondOK(r, NoData)
    \/ \E r \in Reqs, s \in Statuses : RespondError(r, s)
    \/ \E r \in Reqs, a \in Tokens, rt \in RefreshTokens \cup {NULL} :
          RefreshSucceeds(r, a, rt)
    \/ \E r \in Reqs, why \in RefreshFailures : RefreshFails(r, why)

SpecInterceptor == InitInterceptor /\ [][NextInterceptor]_vars

\* The interceptor with room in its queue: one request refreshes while two
\* others fail behind it.
NextQueue ==
    \/ \E r \in Reqs : Call(r, "api")
    \/ \E r \in Reqs : RespondOK(r, NoData)
    \/ \E r \in Reqs, s \in Statuses : RespondError(r, s)
    \/ \E r \in Reqs, a \in Tokens, rt \in RefreshTokens \cup {NULL} :
          RefreshSucceeds(r, a, rt)
    \/ \E r \in Reqs, why \in RefreshFailures : RefreshFails(r, why)

SpecQueue == InitInterceptor /\ [][NextQueue]_vars

\* --------------------------------------------------------- favorites
\* The FavoritesProvider and its server. Requests go through axiosClient; here
\* a request is answered by the server and the answer reaches the caller in a
\* later step, with what the interceptor hands on: the response or an error.
netVars == <<isRefreshing, failedQueue, settledOrder, reqVars, refreshCalls,
             storageEvents, otherWrites, isLoading>>

\* calls are numbered in the order they are made
NextCall(i) ==
    calls[i].phase = "idle" /\ \A j \in Calls : j < i => calls[j].phase # "idle"

\* the call record of i after it issued the request req
Issue(c, req) ==
    [c EXCEPT !.sent = Append(@, req), !.auth = attachAuth(ls, NULL),
              !.response = NoResponse]

\* the part of refreshFavorites up to its await, lines 68-70
StartFetch(c) == [Issue(c, "getAll") EXCEPT !.phase = "fetching"]

\* faulty variant: an error that is re-thrown leaves without the re-fetch
FinallySkippedOnThrow(c) ==
    IF c.rethrow THEN [c EXCEPT !.phase = "done", !.outcome = "threw"]
    ELSE StartFetch(c)

\* lines 107-109 and 134-136: finally { await refreshFavorites() }
Finally(c) == StartFetch(c)

\* the state after the FavoritesProvider's first render and mount effect
FavoritesMounted(authed) ==
    /\ favoriteItems = <<>>
    /\ favoriteIds = {}
    /\ favoritesLoading = authed
    /\ calls = [i \in Calls |->
                  IF authed /\ i = 1
                  THEN StartFetch([IdleCall EXCEPT !.fn = "refreshFavorites"])
                  ELSE IdleCall]

\* The provider sees the session only through isAuthenticated and the server
\* looks only for the presence of a bearer token, so one signed-in session
\* stands for all of them.
SignedIn == [access_token |-> 1, refresh_token |-> 1, user |-> 1]

InitFavorites ==
    /\ ls \in {NoStore, SignedIn}
    /\ isRefreshing = FALSE
    /\ failedQueue = <<>>
    /\ settledOrder = <<>>
    /\ kind = [r \in Reqs |-> "none"]
    /\ rstate = [r \in Reqs |-> "idle"]
    /\ retry = [r \in Reqs |-> FALSE]
    /\ auth = [r \in Reqs |-> NULL]
    /\ replays = [r \in Reqs |-> 0]
    /\ result = [r \in Reqs |-> Pending]
    /\ refreshCalls = {}
    /\ user = ls.user
    /\ accessToken = ls.access_token
    /\ isLoading = FALSE
    /\ storageEvents = 0
    /\ otherWrites = 0
    /\ CartIdle
    /\ serverFavorites \in ServerLists
    /\ serverFormat \in Formats
    /\ FavoritesMounted(ls.user # NULL /\ ls.access_token # NULL)

\* addFavorite(itemId), up to its await: lines 86-95
addFavorite(i, x) ==
    /\ NextCall(i)
    /\ LET c == [IdleCall EXCEPT !.fn = "addFavorite", !.id = x] IN
       IF MayMutate
       THEN /\ SetFavorites(addOptimistic(Favorites, x))
            /\ calls' = [calls EXCEPT ![i] = [Issue(c, "add") EXCEPT !.phase = "mutating"]]
       ELSE /\ calls' = [calls EXCEPT ![i] = [c EXCEPT !.phase = "done",
                                                      !.outcome = "returned"]]
            /\ UNCHANGED <<favoriteItems, favoriteIds, favoritesLoading>>
    /\ UNCHANGED <<ls, user, accessToken, netVars, serverFavorites, serverFormat,
                   cartVars>>

\* removeFavorite(itemId), up to its await: lines 112-128
removeFavorite(i, x) ==
    /\ NextCall(i)
    /\ LET c == [IdleCall EXCEPT !.fn = "removeFavorite", !.id = x] IN
       IF MayMutate
       THEN /\ SetFavorites(removeOptimistic(Favorites, x))
            /\ calls' = [calls EXCEPT ![i] = [Issue(c, "remove") EXCEPT !.phase = "mutating"]]
       ELSE /\ calls' = [calls EXCEPT ![i] = [c EXCEPT !.phase = "done",
                                                      !.outcome = "returned"]]
            /\ UNCHANGED <<favoriteItems, favoriteIds, favoritesLoading>>
    /\ UNCHANGED <<ls, user, accessToken, netVars, serverFavorites, serverFormat,
                   cartVars>>

\* refreshFavorites() called by a consumer of the context, up to its await
refreshFavorites(i) ==
    /\ NextCall(i)
    /\ LET c == [IdleCall EXCEPT !.fn = "refreshFavorites"] IN
       IF isAuthenticated
       THEN /\ calls' = [calls EXCEPT ![i] = StartFetch(c)]
            /\ favoritesLoading' = TRUE
            /\ UNCHANGED <<favoriteItems, favoriteIds>>
       ELSE /\ SetFavorites(refreshFavoritesSignedOut(Favorites))
            /\ calls' = [calls EXCEPT ![i] = [c EXCEPT !.phase = "done",
                                                      !.outcome = "returned"]]
    /\ UNCHANGED <<ls, user, accessToken, netVars, serverFavorites, serverFormat,
                   cartVars>>

\* the answers of the server to POST /api/favorites/{x}: success (NoError), the
\* conflict, or another failure
AddAnswers == {NoError, AlreadyInFavorites, CannotFavoriteOwn, ItemNotFound, ServerError}
\* ... and to DELETE /api/favorites/{x}
RemoveAnswers == {NoError, NotInFavorites, NotFavorited, ItemNotFound, BadRequest,
                  ServerError}

\* the server handles POST /api/favorites/{x}; it serves only requests that
\* carry a bearer token and reports the conflict only when x is in its list
ServerAdd(i, answer) ==
    /\ calls[i].phase = "mutating" /\ calls[i].fn = "addFavorite"
    /\ answer = NoError => calls[i].auth # NULL
    /\ answer = AlreadyInFavorites => calls[i].id \in Range(serverFavorites)
    /\ serverFavorites' = IF answer = NoError THEN With(serverFavorites, calls[i].id)
                          ELSE serverFavorites
    /\ calls' = [calls EXCEPT ![i].phase = "mutated", ![i].auth = NULL,
                              ![i].response = IF answer = NoError
                                              THEN Succeeded(Undefined)
                                              ELSE Failed(answer)]
    /\ UNCHANGED <<ls, user, accessToken, netVars, favoriteItems, favoriteIds,
                   favoritesLoading, serverFormat, cartVars>>

\* the server handles DELETE /api/favorites/{x}
ServerRemove(i, answer) ==
    /\ calls[i].phase = "mutating" /\ calls[i].fn = "removeFavorite"
    /\ answer = NoError => calls[i].auth # NULL
    /\ answer \in {NotInFavorites, NotFavorited} =>
          calls[i].id \notin Range(serverFavorites)
    /\ serverFavorites' = IF answer = NoError THEN Without(serverFavorites, calls[i].id)
                          ELSE serverFavorites
    /\ calls' = [calls EXCEPT ![i].phase = "mutated", ![i].auth = NULL,
                              ![i].response = IF answer = NoError
                                              THEN Succeeded(Undefined)
                                              ELSE Failed(answer)]
    /\ UNCHANGED <<ls, user, accessToken, netVars, favoriteItems, favoriteIds,
                   favoritesLoading, serverFormat, cartVars>>

\* the server handles GET /api/favorites
ServerList(i, answer) ==
    /\ calls[i].phase = "fetching"
    /\ answer = NoError => calls[i].auth # NULL
    /\ calls' = [calls EXCEPT ![i].phase = "fetched", ![i].auth = NULL,
                              ![i].response =
                                  IF answer = NoError
                                  THEN Succeeded(Body(serverFormat, serverFavorites))
                                  ELSE Failed(answer)]
    /\ UNCHANGED <<ls, user, accessToken, netVars, favoriteItems, favoriteIds,
                   favoritesLoading, serverFavorites, serverFormat, cartVars>>

\* addFavorite / removeFavorite after their await: catch (lines 96-106,
\* 129-133), then finally, which calls the refreshFavorites of the render the
\* call was made in (isAuthenticated was true there) up to its await
MutationReturns(i) ==
    /\ calls[i].phase = "mutated"
    /\ LET c       == calls[i]
           failed  == ~c.response.ok
           rethrow == failed /\ ~Swallows(c.fn, c.response.error)
           f       == IF rethrow
                      THEN [Favorites EXCEPT
                              !.favoriteIds = Rollback(c.fn, @, c.id)]
                      ELSE Favorites
       IN  /\ SetFavorites([f EXCEPT !.isLoading = TRUE])
           /\ calls' = [calls EXCEPT ![i] =
                          Finally([c EXCEPT !.settled = @ + 1,
                                            !.error = c.response.error,
                                            !.rethrow = rethrow])]
    /\ UNCHANGED <<ls, user, accessToken, netVars, serverFavorites, serverFormat,
                   cartVars>>

\* refreshFavorites after its await (lines 71-79); the call that awaited it
\* then returns, or throws the error its catch block re-threw
FetchReturns(i) ==
    /\ calls[i].phase = "fetched"
    /\ LET c == calls[i] IN
       /\ SetFavorites(IF c.response.ok
                       THEN refreshFavoritesThen(Favorites, c.response.body)
                       ELSE refreshFavoritesCatch(Favorites))
       /\ calls' = [calls EXCEPT ![i] =
                      [c EXCEPT !.phase = "done", !.settled = @ + 1,
                                !.response = NoResponse,
                                !.outcome = IF c.rethrow THEN "threw" ELSE "returned"]]
    /\ UNCHANGED <<ls, user, accessToken, netVars, serverFavorites, serverFormat,
                   cartVars>>

\* a login succeeds: isAuthenticated turns true, and the effect of the
\* FavoritesProvider (lines 82-84) runs the new refreshFavorites
SessionStarts(i, data) ==
    /\ ~isAuthenticated
    /\ ~InvalidLoginResponse(data)
    /\ NextCall(i)
    /\ SetSession(login(Session, data))
    /\ calls' = [calls EXCEPT ![i] =
                   [StartFetch([IdleCall EXCEPT !.fn = "refreshFavorites"])
                      EXCEPT !.auth = data.access_token]]
    /\ favoritesLoading' = TRUE
    /\ UNCHANGED <<favoriteItems, favoriteIds, serverFavorites, serverFormat,
                   isRefreshing, failedQueue, reqVars, refreshCalls, storageEvents,
                   otherWrites, settledOrder, cartVars>>

\* logout: isAuthenticated turns false, and the effect runs the new
\* refreshFavorites, which clears the lists
SessionEnds ==
    /\ isAuthenticated
    /\ SetSession(logout(Session, TRUE))
    /\ SetFavorites(refreshFavoritesSignedOut(Favorites))
    /\ UNCHANGED <<calls, serverFavorites, serverFormat, isRefreshing, failedQueue,
                   reqVars, refreshCalls, storageEvents, otherWrites,
                   settledOrder, cartVars>>

NextFavorites ==
    \/ \E i \in Calls, x \in Items : addFavorite(i, x)
    \/ \E i \in Calls, x \in Items : removeFavorite(i, x)
    \/ \E i \in Calls : refreshFavorites(i)
    \/ \E i \in Calls, answer \in AddAnswers : ServerAdd(i, answer)
    \/ \E i \in Calls, answer \in RemoveAnswers : ServerRemove(i, answer)
    \/ \E i \in Calls, answer \in {NoError, ServerError} : ServerList(i, answer)
    \/ \E i \in Calls : MutationReturns(i)
    \/ \E i \in Calls : FetchReturns(i)
    \/ \E i \in Calls : SessionStarts(i, SignedIn)
    \/ SessionEnds

SpecFavorites == InitFavorites /\ [][NextFavorites]_vars

TypeOK ==
    /\ ls \in [access_token : Tokens \cup {NULL}, refresh_token : RefreshTokens \cup {NULL},
               user : Users \cup {NULL}]
    /\ isRefreshing \in BOOLEAN
    /\ Range(failedQueue) \subseteq Reqs
    /\ kind \in [Reqs -> Kinds \cup {"none"}]
    /\ rstate \in [Reqs -> {"idle", "sent", "queued", "refreshing", "done", "dropped"}]
    /\ retry \in [Reqs -> BOOLEAN]
    /\ auth \in [Reqs -> Tokens \cup {NULL}]
    /\ replays \in [Reqs -> 0..(NumReqs + 1)]
    /\ refreshCalls \subseteq Reqs
    /\ user \in Users \cup {NULL}
    /\ accessToken \in Tokens \cup {NULL}
    /\ isLoading \in BOOLEAN
    /\ storageEvents \in 0..(3 * MaxOtherWrites)
    /\ otherWrites \in 0..MaxOtherWrites

\* ------------------------------------------------------------- claims
Settled(r) == rstate[r] = "done"
RefreshErrors == {RefreshError(why) : why \in RefreshFailures}

\* C1: at every reachable state at most one call to the token-refresh
\* endpoint is in flight, however the 401 failures (replayed requests
\* included) interleave.
C1_OneRefreshInFlight == Cardinality(refreshCalls) <= 1

\* a 401 arrived while the refresh another request started was in flight
C1_Witness ==
    \E r, q \in Reqs : r # q /\ refreshCalls = {r} /\ failedQueue = <<q>>

\* C2: when the requests that failed with 401 wait for one refresh (the one
\* that started it and those queued behind it) and that refresh succeeds with
\* token a, it is the only refresh call, no other one is started, and each
\* waiting request is re-sent once, carrying a.
C2_SingleRefreshReplaysAll ==
    [][\A r \in Reqs, a \in Tokens, rt \in RefreshTokens \cup {NULL} :
         RefreshSucceeds(r, a, rt) =>
            LET batch == {r} \cup Range(failedQueue) IN
            /\ refreshCalls = {r}
            /\ refreshCalls' = {}
            /\ \A q \in batch :
                  /\ rstate'[q] = "sent"
                  /\ replays'[q] = replays[q] + 1
                  /\ auth'[q] = a
            /\ \A q \in Reqs \ batch :
                  replays'[q] = replays[q] /\ rstate'[q] = rstate[q]]_vars

\* two requests failed with a stale token, one refresh, both re-sent with the
\* refreshed token
C2_Witness ==
    \E r, q \in Reqs :
        /\ r # q /\ retry[r] /\ ~retry[q]
        /\ rstate[r] = "sent" /\ rstate[q] = "sent"
        /\ replays[r] = 1 /\ replays[q] = 1
        /\ auth[r] = ls.access_token /\ auth[q] = ls.access_token
        /\ refreshCalls = {} /\ ~isRefreshing

\* C3: when the refresh call fails (network error, rejection, response
\* without access token) the three stored session fields are removed and every
\* request queued behind the refresh is rejected with the refresh error and
\* is not re-sent.
C3_RefreshFailureClearsAndRejects ==
    [][\A r \in Reqs, why \in RefreshFailures :
         RefreshFails(r, why) =>
            /\ ls' = NoStore
            /\ failedQueue' = <<>>
            /\ \A q \in Range(failedQueue) :
                  /\ rstate'[q] = "done"
                  /\ result'[q] = RefreshError(why)
                  /\ replays'[q] = replays[q]]_vars

\* a refresh failed with a request queued behind it
C3_Witness ==
    \E r, q \in Reqs :
        /\ r # q /\ retry[r] /\ ~retry[q]
        /\ Settled(r) /\ Settled(q)
        /\ result[q] \in RefreshErrors /\ replays[q] = 0
        /\ ls = NoStore

C5_NoRefreshTokenIsTerminal ==
    [][\A r \in Reqs :
         ( /\ RespondError(r, UNAUTHORIZED)
           /\ ~retry[r] /\ ~isRefreshing /\ ls.refresh_token = NULL ) =>
            /\ ls' = NoStore
            /\ refreshCalls' = refreshCalls
            /\ rstate'[r] = "done"
            /\ replays' = replays
            /\ ~isRefreshing'
            /\ result'[r] = ResponseError(r, UNAUTHORIZED)]_vars

\* a first 401 met a storage that held an access token but no refresh token
C5_Witness ==
    \E r \in Reqs :
        /\ Settled(r) /\ retry[r] /\ replays[r] = 0 /\ auth[r] # NULL
        /\ result[r] = ResponseError(r, UNAUTHORIZED)
        /\ ls = NoStore /\ ~isRefreshing

\* C6 as stated: the interceptor re-sends every request at most once.
C6_ReplayedAtMostOnce == \A r \in Reqs : replays[r] <= 1

\* C7: an error that is not a 401, or a 401 on a request already marked as
\* retried, is rejected to the caller unchanged; handling it starts no refresh
\* call, adds nothing to the queue and leaves the stored session unchanged.
C7_OtherErrorsPassThrough ==
    [][\A r \in Reqs, s \in Statuses :
         ( RespondError(r, s) /\ (s # UNAUTHORIZED \/ retry[r]) ) =>
            /\ result'[r] = ResponseError(r, s)
            /\ rstate'[r] = "done"
            /\ refreshCalls' = refreshCalls
            /\ isRefreshing' = isRefreshing
            /\ failedQueue' = failedQueue
            /\ replays' = replays
            /\ ls' = ls]_vars

\* a retried request failed with 401 again and another failed with a 500,
\* while the session stayed in storage
C7_Witness ==
    \E r, q \in Reqs :
        /\ Settled(r) /\ retry[r] /\ replays[r] = 1
        /\ result[r] = ResponseError(r, UNAUTHORIZED)
        /\ Settled(q) /\ result[q] = ResponseError(q, 500)
        /\ ls.access_token # NULL

\* C8 as stated: the current user is non-null exactly when the access token
\* is non-null.
C8_UserIffToken == (user # NULL) <=> (accessToken # NULL)

\* C9 as stated: once the interceptor has handled a refresh failure, or a 401
\* with no refresh token, this tab's auth state has no access token and no
\* user, so isAuthenticated is false.
C9_ForcedLogoutReachesAuthState ==
    [][\A r \in Reqs :
         ( \/ \E why \in RefreshFailures : RefreshFails(r, why)
           \/ \E s \in Statuses : NoRefreshToken(r, s) ) =>
            accessToken' = NULL /\ user' = NULL /\ ~isAuthenticated']_vars

\* C10: whether the server's logout call succeeds or fails, when logout
\* returns the stored access token, refresh token and user are removed and
\* the in-memory access token and user are null.
C10_LogoutDestroysSession ==
    [][\A r \in Reqs :
         ( kind[r] = "logout" /\ result[r] = Pending /\ result'[r] # Pending ) =>
            ls' = NoStore /\ accessToken' = NULL /\ user' = NULL]_vars

\* a logout whose server call failed has returned
C10_Witness ==
    \E r \in Reqs :
        /\ kind[r] = "logout" /\ Settled(r) /\ result[r].state = "rejected"
        /\ ls = NoStore /\ accessToken = NULL /\ user = NULL

\* C11: on a page load with a stored access token, when the /auth/me call of
\* fetchUser fails (directly, or after the interceptor's refresh and replay),
\* the three stored session fields are removed, the in-memory access token and
\* user are null, isAuthenticated is false and isLoading is false.
C11_FailedLoadClearsSession ==
    [][\A r \in Reqs :
         ( kind[r] = "me" /\ result[r] = Pending /\ result'[r].state = "rejected" ) =>
            /\ ls' = NoStore
            /\ accessToken' = NULL /\ user' = NULL
            /\ ~isAuthenticated'
            /\ ~isLoading']_vars

\* the /auth/me call was replayed after a refresh and failed again
C11_Witness ==
    \E r \in Reqs :
        /\ kind[r] = "me" /\ Settled(r) /\ result[r].state = "rejected"
        /\ replays[r] = 1
        /\ ls = NoStore /\ accessToken = NULL /\ user = NULL /\ ~isLoading

\* C12: when the login call is answered, a session is established exactly
\* when the response carries both an access token and a user: then tokens and
\* user are stored, isAuthenticated is true and the current user is the
\* returned one; otherwise login throws and the stored and in-memory session
\* is unchanged.
C12_LoginEstablishesSession ==
    [][\A r \in Reqs, data \in DataFor("login") :
         ( kind[r] = "login" /\ RespondOK(r, data) ) =>
            /\ InvalidLoginResponse(data)
                  <=> (data.access_token = NULL \/ data.user = NULL)
            /\ IF data.access_token # NULL /\ data.user # NULL
               THEN /\ ls'.access_token = data.access_token
                    /\ ls'.user = data.user
                    /\ ls'.refresh_token = IF data.refresh_token # NULL
                                           THEN data.refresh_token
                                           ELSE ls.refresh_token
                    /\ accessToken' = data.access_token
                    /\ user' = data.user
                    /\ isAuthenticated'
               ELSE UNCHANGED <<ls, accessToken, user>>]_vars

\* a login from a signed-out tab was answered with token, refresh token and user
C12_Witness ==
    \E r \in Reqs :
        /\ kind[r] = "login" /\ Settled(r) /\ result[r] = Fulfilled
        /\ auth[r] = NULL
        /\ isAuthenticated
        /\ ls.access_token = accessToken /\ ls.user = user
        /\ ls.refresh_token # NULL

\* in-memory session = stored session
InSync == accessToken = ls.access_token /\ user = ls.user

MutationPending(i) == calls[i].phase \in {"mutating", "mutated"}

\* C14 as stated: for an authenticated user, from the call of addFavorite(x)
\* until its add request is settled, isFavorite(x) is true (the user not
\* having called removeFavorite(x) since).
C14_OptimisticUntilResolved ==
    \A i \in Calls :
        ( /\ calls[i].fn = "addFavorite" /\ MutationPending(i) /\ isAuthenticated
          /\ \A j \in Calls : j > i =>
                ~(calls[j].fn = "removeFavorite" /\ calls[j].id = calls[i].id) ) =>
            isFavorite(calls[i].id)

\* C15 as stated: when the server answered addFavorite(x) with the conflict
\* "already favorited", addFavorite returns without throwing and, its
\* re-fetch completed, x is in the local favorite set (no removeFavorite(x)
\* having been called).
C15_ConflictEndsFavorited ==
    [][\A i \in Calls :
         ( /\ FetchReturns(i)
           /\ calls[i].fn = "addFavorite" /\ calls[i].error = AlreadyInFavorites
           /\ \A j \in Calls :
                 ~(calls[j].fn = "removeFavorite" /\ calls[j].id = calls[i].id) ) =>
            /\ calls'[i].outcome = "returned"
            /\ calls[i].id \in favoriteIds']_vars

\* no other call of the run concerns the item of call i
OnlyCallOn(i) == \A j \in Calls : j # i => calls[j].id # calls[i].id

\* C16: when the server answered addFavorite(x) with an unrelated 500 error
\* and x is not favorited on the server (no other call concerns x),
\* addFavorite throws that same error to its caller and, when it has
\* returned, x is not in the local favorite set.
C16_ServerErrorRollsBack ==
    [][\A i \in Calls :
         ( /\ FetchReturns(i)
           /\ calls[i].fn = "addFavorite" /\ calls[i].error = ServerError
           /\ calls[i].id \notin Range(serverFavorites)
           /\ OnlyCallOn(i) ) =>
            /\ calls'[i].outcome = "threw"
            /\ calls'[i].error = ServerError
            /\ calls[i].id \notin favoriteIds']_vars

\* addFavorite(x) threw the server's 500; its re-fetch brought the other
\* favorite back and x is not marked
C16_Witness ==
    \E i \in Calls :
        /\ calls[i].fn = "addFavorite" /\ calls[i].phase = "done"
        /\ calls[i].outcome = "threw" /\ calls[i].error = ServerError
        /\ OnlyCallOn(i)
        /\ calls[i].id \notin favoriteIds
        /\ favoriteIds # {}
        /\ favoriteIds = Range(serverFavorites)

\* C17: when the server answered removeFavorite(x) that x is not favorited
\* (404, or 400 "not favorited"), removeFavorite returns without throwing,
\* and afterwards x is not in the local favorite set (no other call concerns
\* x).
C17_RemoveOfAbsentIsQuiet ==
    [][\A i \in Calls :
         ( /\ FetchReturns(i)
           /\ calls[i].fn = "removeFavorite"
           /\ calls[i].error \in {NotInFavorites, NotFavorited} ) =>
            /\ calls'[i].outcome = "returned"
            /\ OnlyCallOn(i) => calls[i].id \notin favoriteIds']_vars

\* removeFavorite(x) was answered 400 "not favorited" and returned; the
\* re-fetch brought the list of the other favorites
C17_Witness ==
    \E i \in Calls :
        /\ calls[i].fn = "removeFavorite" /\ calls[i].phase = "done"
        /\ calls[i].outcome = "returned" /\ calls[i].error = NotFavorited
        /\ OnlyCallOn(i)
        /\ calls[i].id \notin favoriteIds
        /\ favoriteIds # {}

\* C18 as stated: while the session is unauthenticated isFavorite(x) is false
\* for every x, and addFavorite(x) and removeFavorite(x) issue no request and
\* leave the favorite set and the favorite-items list unchanged.
C18_SignedOutIsInert ==
    /\ [](~isAuthenticated => \A x \in Items : ~isFavorite(x))
    /\ [][\A i \in Calls, x \in Items :
           ( ~isAuthenticated /\ (addFavorite(i, x) \/ removeFavorite(i, x)) ) =>
              /\ calls'[i].sent = <<>>
              /\ calls'[i].phase = "done"
              /\ UNCHANGED <<favoriteIds, favoriteItems>>]_vars

\* the failures that mean the mutation's effect is in place already: an add
\* rejected because the item is favorited, a remove rejected because it is not
IdempotentConflict(fn, err) ==
    IF fn = "addFavorite" THEN err = AlreadyInFavorites
    ELSE err \in {NotInFavorites, NotFavorited}

\* C19 as stated: a failure of an add or remove request is kept from the
\* caller only when it is an idempotent conflict; every other failure,
\* other 400 and 404 responses included, is re-thrown.
C19_OnlyConflictsSwallowed ==
    \A i \in Calls :
        ( calls[i].error # NoError /\ ~MutationPending(i) ) =>
            ( calls[i].rethrow <=> ~IdempotentConflict(calls[i].fn, calls[i].error) )

\* the mutation request of a call
MutationOf(fn) == IF fn = "addFavorite" THEN "add" ELSE "remove"

\* C20: every addFavorite or removeFavorite call made while authenticated
\* issues no list request before its mutation request is settled and exactly
\* one after it, whether the mutation succeeded, failed with a swallowed
\* conflict or failed with an error that is re-thrown, and it has not
\* returned or thrown before that list request is settled.
C20_OneRefetchBeforeReturn ==
    \A i \in Calls :
        ( calls[i].fn \in {"addFavorite", "removeFavorite"} /\ calls[i].sent # <<>> ) =>
            LET c == calls[i]  m == MutationOf(c.fn) IN
            /\ MutationPending(i) =>
                  c.sent = <<m>> /\ c.settled = 0 /\ c.outcome = "pending"
            /\ c.phase \in {"fetching", "fetched"} =>
                  c.sent = <<m, "getAll">> /\ c.settled = 1 /\ c.outcome = "pending"
            /\ c.phase = "done" =>
                  c.sent = <<m, "getAll">> /\ c.settled = 2 /\ c.outcome # "pending"
            /\ c.outcome # "pending" => c.phase = "done"

\* one mutation was re-thrown and one was swallowed, each call ending after
\* its own re-fetch
C20_Witness ==
    \E i, j \in Calls :
        /\ \A n \in {i, j} :
              /\ calls[n].fn \in {"addFavorite", "removeFavorite"}
              /\ calls[n].phase = "done" /\ calls[n].sent = <<MutationOf(calls[n].fn), "getAll">>
              /\ calls[n].settled = 2
        /\ calls[i].outcome = "threw" /\ calls[i].error # NoError
        /\ calls[j].outcome = "returned" /\ calls[j].error # NoError

\* C21 as stated: while no session exists (after a logout, until the next
\* login) the favorite set and the favorite-items list are empty, whatever
\* request was in flight when the session ended.
C21_EmptyWhileSignedOut ==
    ~isAuthenticated => (favoriteIds = {} /\ favoriteItems = <<>>)

\* One authenticated session in which every request succeeds: the calls, the
\* server's answers and their arrival interleave freely.
InitFavoritesOk ==
    /\ InitFavorites
    /\ ls = SignedIn

NextFavoritesOk ==
    \/ \E i \in Calls, x \in Items : addFavorite(i, x)
    \/ \E i \in Calls, x \in Items : removeFavorite(i, x)
    \/ \E i \in Calls : ServerAdd(i, NoError)
    \/ \E i \in Calls : ServerRemove(i, NoError)
    \/ \E i \in Calls : ServerList(i, NoError)
    \/ \E i \in Calls : MutationReturns(i)
    \/ \E i \in Calls : FetchReturns(i)

SpecFavoritesOk == InitFavoritesOk /\ [][NextFavoritesOk]_vars

\* no request of the FavoritesProvider is under way
Quiescent == \A i \in Calls : calls[i].phase \in {"idle", "done"}

\* C22 as stated: in one authenticated session, once every mutation request
\* and every reconciling fetch has completed successfully, the local favorite
\* set equals the server's favorite set (the server answering with the list
\* format the provider reads).
C22_EventuallyConsistent ==
    ( Quiescent /\ serverFormat = "items" ) => favoriteIds = Range(serverFavorites)

\* the item a list entry stands for
ItemOf(entry) == IF entry.item_id # NULL THEN entry.item_id ELSE entry.id

\* C23 as stated: when a list fetch of refreshFavorites succeeds, the
\* favorite set becomes exactly the set of items of the server's list and the
\* favorite-items list keeps the server's order; refreshFavorites of an
\* unauthenticated session clears both and issues no request.
C23_RefreshMirrorsServerList ==
    [][/\ \A i \in Calls :
            ( FetchReturns(i) /\ calls[i].response.ok ) =>
               \E list \in ServerLists :
                  /\ calls[i].response.body = Body(serverFormat, list)
                  /\ favoriteIds' = Range(list)
                  /\ [k \in DOMAIN favoriteItems' |-> ItemOf(favoriteItems'[k])] = list
       /\ \A i \in Calls :
            ( refreshFavorites(i) /\ ~isAuthenticated ) =>
               /\ favoriteIds' = {} /\ favoriteItems' = <<>>
               /\ calls'[i].sent = <<>>]_vars

\* C28: whenever no favorite mutation and no list fetch is in flight, the
\* favorite-id set equals the set of ids of the entries of the favorite-items
\* list, after any sequence of addFavorite, removeFavorite, refreshFavorites
\* and authentication changes, failed ones included.
C28_IdsMatchItemsAtRest ==
    Quiescent => favoriteIds = syncIdsFromItems(favoriteItems)

\* a failed mutation rolled back, its re-fetch failed too, and the provider is
\* at rest after an earlier fetch had filled the list
C28_Witness ==
    /\ Quiescent
    /\ \E i \in Calls :
          /\ calls[i].fn = "addFavorite"
          /\ calls[i].outcome = "threw"
          /\ Len(calls[i].sent) = 2
    /\ \E i \in Calls : calls[i].fn = "refreshFavorites" /\ calls[i].phase = "done"
    /\ favoriteIds = {} /\ favoriteItems = <<>>
    /\ serverFavorites # <<>>

OthersKeep(x) == \A y \in Items \ {x} : (y \in favoriteIds') = (y \in favoriteIds)

\* C29: the optimistic insert of addFavorite(x), the rollback of a failed
\* addFavorite(x) and the optimistic removal of removeFavorite(x) change the
\* membership of x only: every other item is in the favorite set after the
\* update exactly if it was before, other operations pending or not.
C29_OnlyTheItemChanges ==
    [][\A i \in Calls :
          /\ \A x \in Items :
                ( addFavorite(i, x) \/ removeFavorite(i, x) ) => OthersKeep(x)
          /\ MutationReturns(i) => OthersKeep(calls[i].id)]_vars

\* addFavorite of one item has failed and been rolled back while the
\* addFavorite of another item is pending with its optimistic mark
C29_Witness ==
    \E i, j \in Calls :
       /\ calls[i].fn = "addFavorite" /\ calls[i].rethrow
       /\ calls[i].phase = "fetching"
       /\ calls[j].fn = "addFavorite"
       /\ calls[j].phase \in {"mutating", "mutated"}
       /\ calls[j].id # calls[i].id
       /\ calls[j].id \in favoriteIds
       /\ calls[i].id \notin favoriteIds

\* request r leaves through the request interceptor in this step
Leaves(r) ==
    /\ rstate'[r] = "sent"
    /\ rstate[r] # "sent" \/ replays'[r] # replays[r]

\* C24: every request sent through axiosClient while an access token is
\* stored, a request replayed after a refresh included, carries as its
\* Authorization header the access token stored at the moment it is sent; the
\* interceptor changes nothing else of the request but the content-type
\* header, which it removes for a FormData body.
C24_BearerOfStoredToken ==
    [][/\ \A r \in Reqs :
            ( Leaves(r) /\ ls'.access_token # NULL ) => auth'[r] = ls'.access_token
       /\ \A config \in Configs :
            LET out == requestInterceptor(config, ls') IN
            /\ ls'.access_token # NULL => out.Authorization = ls'.access_token
            /\ [out EXCEPT !.Authorization = NULL, !.ContentType = "absent"]
                 = [config EXCEPT !.Authorization = NULL, !.ContentType = "absent"]
            /\ config.formData => out.ContentType = "absent"]_vars

\* the request that refreshed and a request queued behind it have both been
\* replayed and are under way with the token the refresh stored
C24_Witness ==
    \E r, q \in Reqs :
       /\ r # q
       /\ replays[r] = 1 /\ replays[q] = 1
       /\ rstate[r] = "sent" /\ rstate[q] = "sent"
       /\ ls.access_token # NULL
       /\ auth[r] = ls.access_token /\ auth[q] = ls.access_token

\* C25: requests queued behind a refresh are settled only after that refresh
\* has resolved and the new access token has been persisted, and they are
\* settled in the order in which they were queued: a request joins the queue
\* at its end, leaves it only in the step in which the refresh returns, and
\* processQueue settles the entries from the first queued to the last; on
\* success every entry is replayed with the token that the step has stored.
C25_QueueSettledInOrderAfterRefresh ==
    [][/\ \A q \in Reqs :
            ( rstate[q] # "queued" /\ rstate'[q] = "queued" ) =>
               failedQueue' = Append(failedQueue, q)
       /\ \A q \in Reqs :
            ( rstate[q] = "queued" /\ rstate'[q] # "queued" ) =>
               /\ isRefreshing /\ ~isRefreshing'
               /\ refreshCalls # {} /\ refreshCalls' = {}
               /\ settledOrder' = failedQueue
               /\ q \in Range(settledOrder')
       /\ \A r \in Reqs, a \in Tokens, rt \in RefreshTokens \cup {NULL} :
            RefreshSucceeds(r, a, rt) =>
               /\ ls'.access_token = a
               /\ \A q \in Range(failedQueue) :
                     rstate'[q] = "sent" /\ auth'[q] = a]_vars

\* two requests were queued behind a refresh, the later issued one first, and
\* both have been replayed in that order with the refreshed token
C25_Witness ==
    /\ Len(settledOrder) = 2
    /\ settledOrder[1] > settledOrder[2]
    /\ ls.access_token # NULL
    /\ \A q \in Range(settledOrder) :
          rstate[q] = "sent" /\ replays[q] = 1 /\ auth[q] = ls.access_token

\* The refresh call returns: axios resolves or rejects every request it made
\* (the browser ends a connection that gets no answer).
RefreshReturns ==
    \/ \E r \in Reqs, a \in Tokens, rt \in RefreshTokens \cup {NULL} :
          RefreshSucceeds(r, a, rt)
    \/ \E r \in Reqs, why \in RefreshFailures : RefreshFails(r, why)

SpecQueueFair == SpecQueue /\ WF_vars(RefreshReturns)

\* C26: a queue entry exists only while a refresh is in flight: whenever
\* isRefreshing is false the queue is empty, the queued requests are exactly
\* the entries of the queue, each once; when the refresh settles every entry
\* is resolved (replayed) or rejected in that step and the queue is emptied;
\* and no queued request stays queued forever.
C26_QueueLivesWithRefresh ==
    /\ [](/\ ~isRefreshing => failedQueue = <<>>
          /\ failedQueue # <<>> => refreshCalls # {}
          /\ \A q \in Reqs : rstate[q] = "queued" <=> q \in Range(failedQueue)
          /\ \A j, k \in DOMAIN failedQueue : j # k => failedQueue[j] # failedQueue[k])
    /\ [][RefreshReturns =>
            /\ failedQueue' = <<>>
            /\ \A q \in Range(failedQueue) :
                  \/ rstate'[q] = "sent" /\ replays'[q] = replays[q] + 1
                  \/ rstate'[q] = "done" /\ result'[q].state = "rejected"]_vars
    /\ \A q \in Reqs : (rstate[q] = "queued") ~> (rstate[q] # "queued")

\* two requests were queued behind a refresh that failed: both are rejected,
\* the queue is empty and no refresh is in progress
C26_Witness ==
    /\ Len(settledOrder) = 2
    /\ ~isRefreshing /\ failedQueue = <<>>
    /\ \A q \in Range(settledOrder) :
          rstate[q] = "done" /\ result[q].state = "rejected"

\* a logout of this tab has completed and storage holds no access token
LoggedOut ==
    /\ ls.access_token = NULL
    /\ \E r \in Reqs : kind[r] = "logout" /\ rstate[r] = "done"

\* a login or a registration succeeds in this step
SignsIn ==
    \E q \in Reqs, data \in DataFor("login") :
       kind[q] \in {"login", "register"} /\ RespondOK(q, data)

\* C27 as stated: a logout that completes while a token refresh is in flight
\* is not undone by that refresh: once logout has cleared the session no
\* access token reappears in storage, and no request is replayed with a bearer
\* token, until the next login or registration.
C27_LogoutNotUndoneByRefresh ==
    [][( LoggedOut /\ ~SignsIn ) =>
          /\ ls'.access_token = NULL
          /\ \A q \in Reqs :
                ( Leaves(q) /\ replays'[q] > replays[q] ) => auth'[q] = NULL]_vars

\* ---------------------------------------------------------------- cart
\* The CartProvider. An entry is { item, quantity }; the item is its id.
CartItem(x, n) == [id |-> x, quantity |-> n]

InCart(current, x) == \E k \in DOMAIN current : current[k].id = x

\* faulty variant: the item is appended whether or not it is in the cart
addedAlways(current, x) == Append(current, CartItem(x, 1))

\* lines 29-37: the updater of addToCart
added(current, x) ==
    IF InCart(current, x)
    THEN [k \in DOMAIN current |->
            IF current[k].id = x
            THEN [current[k] EXCEPT !.quantity = @ + 1] ELSE current[k]]
    ELSE Append(current, CartItem(x, 1))

\* line 41: the updater of removeFromCart
removed(current, x) == SelectSeq(current, LAMBDA ci : ci.id # x)

\* lines 49-51: the updater of updateQuantity
updated(current, x, n) ==
    [k \in DOMAIN current |->
       IF current[k].id = x THEN [current[k] EXCEPT !.quantity = n] ELSE current[k]]

\* setItems, and the effect of lines 24-26 that writes the list to storage
SetItems(new) ==
    /\ cartItems' = new
    /\ cartStorage' = new
    /\ UNCHANGED <<ls, isRefreshing, failedQueue, settledOrder, reqVars, refreshCalls,
                   authVars, storageEvents, otherWrites, favVars>>

QuantityOf(x) ==
    IF InCart(cartItems, x)
    THEN (CHOOSE ci \in Range(cartItems) : ci.id = x).quantity ELSE 0

addToCart(x) ==
    /\ QuantityOf(x) < MaxQuantity
    /\ SetItems(added(cartItems, x))

removeFromCart(x) == SetItems(removed(cartItems, x))

\* lines 44-52
updateQuantity(x, n) ==
    IF n <= 0 THEN removeFromCart(x) ELSE SetItems(updated(cartItems, x, n))

clearCart == SetItems(<<>>)

\* the quantities a caller passes: the cart page passes quantity - 1 and
\* quantity + 1 of an entry
Quantities == -1..MaxQuantity

InitCart ==
    /\ InitInterceptor
    /\ ls = NoStore

NextCart ==
    \/ \E x \in CartItemIds : addToCart(x)
    \/ \E x \in CartItemIds : removeFromCart(x)
    \/ \E x \in CartItemIds, n \in Quantities : updateQuantity(x, n)
    \/ clearCart

SpecCart == InitCart /\ [][NextCart]_vars

\* C30: starting from an empty cart, after any sequence of addToCart,
\* removeFromCart, updateQuantity and clearCart every item id appears at most
\* once in the cart and every entry has quantity >= 1; updateQuantity with a
\* quantity <= 0 removes the entry, and addToCart of an item already in the
\* cart adds 1 to its quantity instead of appending.
C30_CartWellFormed ==
    /\ [](/\ \A j, k \in DOMAIN cartItems :
                j # k => cartItems[j].id # cartItems[k].id
          /\ \A k \in DOMAIN cartItems : cartItems[k].quantity >= 1)
    /\ [][\A x \in CartItemIds :
            /\ \A n \in Quantities :
                  ( updateQuantity(x, n) /\ n <= 0 ) => ~InCart(cartItems', x)
            /\ ( addToCart(x) /\ InCart(cartItems, x) ) =>
                  /\ Len(cartItems') = Len(cartItems)
                  /\ \A k \in DOMAIN cartItems :
                        /\ cartItems'[k].id = cartItems[k].id
                        /\ cartItems'[k].quantity =
                              cartItems[k].quantity
                                + (IF cartItems[k].id = x THEN 1 ELSE 0)]_vars

\* a cart of two entries, the first added twice more, written to storage
C30_Witness ==
    /\ Len(cartItems) = 2
    /\ cartItems[1].id > cartItems[2].id
    /\ cartItems[1].quantity = MaxQuantity
    /\ cartStorage = cartItems

====
